---- MODULE Spec2Model ----
(***************************************************************************)
(* Model of the request core of n8n-cli (src/src/n8n-client.ts): the       *)
(* N8nClient retry loop, the per-attempt timeout, the scoped-path fallback  *)
(* of the workflow operations and the execution operations built on        *)
(* N8nClient.request.                                                       *)
(*                                                                          *)
(* Text is modelled as a sequence of symbols.  A digit is one symbol, and   *)
(* every phrase the code searches for ("timed out", "not found", ...) is    *)
(* one symbol, so String.prototype.includes is contiguous-subsequence       *)
(* search and number formatting is the decimal expansion.                   *)
(***************************************************************************)
EXTENDS Integers, Sequences, FiniteSets, TLC

VARIABLES
    profile,      \* the N8nClient fields set by the constructor
    pc,           \* position of the running call
    op,           \* the operation being executed and its per-call argument
    path,         \* path of the send in progress
    attempt,      \* loop variable of N8nClient.request
    fetches,      \* transport attempts (fetch calls) started by the current send
    delays,       \* backoff delays slept by the current send, in order
    lastErr,      \* lastErr of N8nClient.request
    timerArmed,   \* the setTimeout of doRequest is pending
    elapsed,      \* timeoutMs has elapsed since the attempt in flight started
    sent,         \* paths of the sends this call has started, in order
    lastOutcome,  \* what the latest completed send returned or threw
    firstSend,    \* the completed first send of a call that went on to a second
    result,       \* what the call returned or threw
    fellBack,     \* some earlier call of this engine fell back to the unscoped path
    inflight,     \* the HTTP requests sent and not yet settled
    stderr,       \* the engine has written to the standard error stream
    task,         \* the operation composed of several calls that is running
    fn            \* argument and result of the function applied last

vars == <<profile, pc, op, path, attempt, fetches, delays, lastErr, timerArmed,
          elapsed, sent, lastOutcome, firstSend, result, fellBack, inflight, stderr, task, fn>>

----------------------------------------------------------------------------
(* Bounds and program constants *)

\* deepest retry budget explored
MaxRetries == 5
\* deepest retry budget explored on an engine with a scope
MaxScopedRetries == 2

DefaultTimeoutMs == 30000
BackoffBaseMs == 1000
BackoffCapMs == 10000

RetriesValues == {-1, 0, 1, MaxScopedRetries, MaxRetries}
TimeoutValues == {DefaultTimeoutMs, 1404}
ProjectIds == {"", "p1"}
CreateArgs == {"", "p1", "p2"}

----------------------------------------------------------------------------
(* Text *)

RECURSIVE Digits(_)
Digits(n) ==
    IF n < 10 THEN <<ToString(n)>>
    ELSE Digits(n \div 10) \o <<ToString(n % 10)>>

Includes(s, pat) ==
    \E i \in 0..(Len(s) - Len(pat)) :
        \A j \in 1..Len(pat) : s[i + j] = pat[j]

P404 == <<"4", "0", "4">>
PNotFound == <<"not found">>
PTimedOut == <<"timed out">>
PAbortError == <<"AbortError">>
PConnReset == <<"ECONNRESET">>
PETimedOut == <<"ETIMEDOUT">>
PFetchFailed == <<"fetch failed">>
PConnRefused == <<"ECONNREFUSED">>
P401 == <<"4", "0", "1">>
PUnauthorized == <<"unauthorized">>
P403 == <<"4", "0", "3">>
PForbidden == <<"forbidden">>
PGetaddrinfo == <<"getaddrinfo">>
PENotFound == <<"ENOTFOUND">>
PSelfSignedCert == <<"SELF_SIGNED_CERT">>
PSelfSigned == <<"self-signed">>
PApiError == <<"n8n API error">>

----------------------------------------------------------------------------
(* Errors.  status = 0 stands for an error object without a status field.  *)

MkErr(name, message, status, causeCode) ==
    [name |-> name, message |-> message, status |-> status, causeCode |-> causeCode]

NoErr == MkErr("", <<>>, 0, "")
UndefinedErr == MkErr("undefined", <<>>, 0, "")

ErrString(err) ==
    IF err.name = "undefined" THEN <<"undefined">>
    ELSE <<err.name, ": ">> \o err.message

(* Response bodies of non-2xx responses: JSON with a message field, JSON    *)
(* with a nested error.message, JSON with neither, or text that is not JSON *)
MkBody(json, message, errorMessage, text) ==
    [json |-> json, message |-> message, errorMessage |-> errorMessage, text |-> text]

Undef == <<"undefined">>

ErrorBodies ==
    { MkBody(FALSE, Undef, Undef, <<"Internal error">>),
      MkBody(TRUE, <<"workflow ", "not found">>, Undef, <<"{message}">>),
      MkBody(TRUE, Undef, <<"execution ", "timed out">>, <<"{error}">>),
      MkBody(TRUE, Undef, Undef, <<"{code:", "4", "0", "4", "}">>) }

ErrorStatuses == {403, 404, 429, 500}

(* The non-2xx responses the server of the model produces *)
HttpFailures ==
    { <<403, MkBody(FALSE, Undef, Undef, <<"Internal error">>)>>,
      <<403, MkBody(TRUE, <<"workflow ", "not found">>, Undef, <<"{message}">>)>>,
      <<403, MkBody(TRUE, Undef, <<"execution ", "timed out">>, <<"{error}">>)>>,
      <<404, MkBody(FALSE, Undef, Undef, <<"Internal error">>)>>,
      <<429, MkBody(FALSE, Undef, Undef, <<"Internal error">>)>>,
      <<500, MkBody(FALSE, Undef, Undef, <<"Internal error">>)>> }

(* Mutant: the nested error.message is preferred to the message field *)
parseApiError_NestedFirst(status, body) ==
    LET msg == IF body.json
               THEN IF body.errorMessage # Undef THEN body.errorMessage
                    ELSE IF body.message # Undef THEN body.message
                    ELSE body.text
               ELSE body.text
    IN  MkErr("Error", <<"n8n API error", " ">> \o Digits(status) \o <<": ">> \o msg, 0, "")

parseApiError(status, body) ==
    LET msg == IF body.json
               THEN IF body.message # Undef THEN body.message
                    ELSE IF body.errorMessage # Undef THEN body.errorMessage
                    ELSE body.text
               ELSE body.text
    IN  MkErr("Error", <<"n8n API error", " ">> \o Digits(status) \o <<": ">> \o msg, 0, "")

HttpError(status, body) ==
    [parseApiError(status, body) EXCEPT !.status = status]

TimeoutError(timeoutMs) ==
    MkErr("Error", <<"n8n API request ", "timed out", " after ">> \o Digits(timeoutMs) \o <<"ms">>, 0, "")

(* What fetch() or res.text() can reject with, other than an abort *)
TransportErrors ==
    { MkErr("TypeError", <<"fetch failed">>, 0, "ECONNREFUSED"),
      MkErr("Error", <<"read ", "ECONNRESET">>, 0, ""),
      MkErr("Error", <<"connect ", "ECONNREFUSED", " 127.0.0.1:5678">>, 0, "") }

isRetryable(err, status) ==
    \/ status # 0 /\ status = 429
    \/ status # 0 /\ status >= 500 /\ status < 600
    \/ LET s == ErrString(err)
       IN  \/ Includes(s, PTimedOut)
           \/ Includes(s, PAbortError)
           \/ Includes(s, PConnReset)
           \/ Includes(s, PETimedOut)
           \/ Includes(s, PFetchFailed)

----------------------------------------------------------------------------
(* Parsed response values.  "undef" stands for an absent field.            *)

MkVal(defined, data, nextCursor, dataId, dataExecutionId, id, executionId) ==
    [defined |-> defined, data |-> data, nextCursor |-> nextCursor,
     dataId |-> dataId, dataExecutionId |-> dataExecutionId,
     id |-> id, executionId |-> executionId]

UndefinedVal == MkVal(FALSE, Undef, "undef", "undef", "undef", "undef", "undef")
EmptyObject == MkVal(TRUE, Undef, "undef", "undef", "undef", "undef", "undef")
EmptyList == MkVal(TRUE, <<>>, "undef", "undef", "undef", "undef", "undef")

JsonValues ==
    { EmptyObject,
      MkVal(TRUE, <<"A", "B">>, "undef", "undef", "undef", "undef", "undef"),
      MkVal(TRUE, Undef, "undef", "e1", "undef", "undef", "undef"),
      MkVal(TRUE, Undef, "undef", "undef", "undef", "undef", "e2") }

(* 2xx responses: content type, and a body that is empty, valid JSON or    *)
(* text that JSON.parse rejects                                            *)
OkResponses ==
    [jsonType : {TRUE}, text : {"valid"}, value : JsonValues, raw : {<<>>}]
    \cup [jsonType : BOOLEAN, text : {"empty"}, value : {UndefinedVal}, raw : {<<>>}]
    \cup [jsonType : {FALSE}, text : {"invalid"}, value : {UndefinedVal}, raw : {<<"<html>">>}]
    \cup [jsonType : {TRUE}, text : {"invalid"}, value : {UndefinedVal},
          raw : {<<"<html>">>}]

(* The SyntaxError of JSON.parse; V8 quotes the start of the source text   *)
(* in the message or not, depending on its version                         *)
SyntaxErrors(raw) ==
    { MkErr("SyntaxError", <<"Unexpected token in JSON at position 0">>, 0, ""),
      MkErr("SyntaxError", <<"Unexpected token, ">> \o raw \o <<" is not valid JSON">>, 0, "") }

----------------------------------------------------------------------------
(* Operations *)

PrimaryOps == {"list", "create", "get", "update", "delete", "activate", "deactivate"}
SecondaryOps == {"listExecutions", "getExecution", "retryExecution",
                 "stopExecution", "deleteExecution"}
VoidOps == {"delete", "activate", "deactivate", "stopExecution", "deleteExecution"}

MkPath(scope, family) == [scope |-> scope, family |-> family]
Unscoped == MkPath("", "workflows")
NoPath == MkPath("", "")

NoSend == [path |-> NoPath, fetches |-> 0, delays |-> <<>>, err |-> NoErr]

Pending == [kind |-> "pending", val |-> UndefinedVal, err |-> NoErr]
Returned(val) == [kind |-> "ok", val |-> val, err |-> NoErr]
Thrown(err) == [kind |-> "err", val |-> UndefinedVal, err |-> err]

(* POST workflows/{id}/run, the primary endpoint of runWorkflow *)
RunPath == MkPath("", "workflows/run")

(* Mutant: every operation takes its scope from the per-call argument *)
FirstPath_ScopeFromArgument(prof, kind, arg) ==
    IF kind \in SecondaryOps THEN MkPath("", "executions")
    ELSE IF arg # "" THEN MkPath(arg, "workflows") ELSE Unscoped

(* The path of the first request of an operation *)
FirstPath(prof, kind, arg) ==
    IF kind = "runWorkflow" THEN RunPath
    ELSE IF kind \in SecondaryOps THEN MkPath("", "executions")
    ELSE IF kind = "create"
         THEN IF arg # "" THEN MkPath(arg, "workflows") ELSE Unscoped
         ELSE IF prof.projectId # "" THEN MkPath(prof.projectId, "workflows") ELSE Unscoped

(* Mutant: the catch block looks for "not found" only, not for 404 *)
FallsBack_NotFoundTextOnly(prof, kind, arg, err) ==
    LET s == ErrString(err)
    IN  CASE kind = "create" -> arg # "" /\ Includes(s, PNotFound)
          [] kind \in PrimaryOps \ {"create"} -> prof.projectId # "" /\ Includes(s, PNotFound)
          [] OTHER -> FALSE

(* Mutant: the execution operations fall back like the workflow operations *)
FallsBack_EveryOperation(prof, kind, arg, err) ==
    LET s == ErrString(err)
    IN  CASE kind = "list" -> prof.projectId # "" /\ Includes(s, P404)
          [] kind = "create" -> arg # "" /\ (Includes(s, P404) \/ Includes(s, PNotFound))
          [] OTHER -> prof.projectId # "" /\ (Includes(s, P404) \/ Includes(s, PNotFound))

(* The condition of the catch block around the first request *)
FallsBack(prof, kind, arg, err) ==
    LET s == ErrString(err)
    IN  CASE kind = "list" -> prof.projectId # "" /\ Includes(s, P404)
          [] kind = "create" -> arg # "" /\ (Includes(s, P404) \/ Includes(s, PNotFound))
          [] kind \in PrimaryOps \ {"list", "create"} ->
                prof.projectId # "" /\ (Includes(s, P404) \/ Includes(s, PNotFound))
          [] kind = "runWorkflow" -> TRUE
          [] OTHER -> FALSE

(* Mutant: the catch block of runWorkflow sends to the workflows path *)
FallbackPath_Unscoped(kind) ==
    Unscoped

(* The path of the request the catch block sends *)
FallbackPath(kind) ==
    IF kind = "runWorkflow" THEN MkPath("", "executions") ELSE Unscoped

Coalesce(fields) ==
    LET present == {i \in 1..Len(fields) : fields[i] # "undef"}
    IN  IF present = {} THEN "" ELSE fields[CHOOSE i \in present : \A j \in present : i <= j]

retryExecutionId(res) ==
    IF ~res.defined THEN ""
    ELSE Coalesce(<<res.dataId, res.dataExecutionId, res.id, res.executionId>>)

(* extractId of runWorkflow *)
extractId(res) ==
    IF ~res.defined THEN ""
    ELSE Coalesce(<<res.dataExecutionId, res.dataId, res.id>>)

ExecutionIdOf(id) == MkVal(TRUE, Undef, "undef", "undef", "undef", "undef", id)

NoExecutionId == MkErr("Error", <<"Workflow run returned ", "no execution ID", ". Check docs">>, 0, "")

(* Mutant: the list operations return what the request returned *)
OpResult_NoDefault(kind, val) ==
    Returned(val)

(* What the operation makes of the value its last request returned *)
OpResult(kind, val) ==
    CASE kind \in {"list", "listExecutions"} ->
            Returned(IF val.defined THEN val ELSE EmptyList)
      [] kind \in VoidOps -> Returned(UndefinedVal)
      [] kind = "retryExecution" ->
            IF retryExecutionId(val) = ""
            THEN Thrown(MkErr("Error", <<"Retry returned no execution ID">>, 0, ""))
            ELSE Returned(MkVal(TRUE, Undef, "undef", "undef", "undef", "undef",
                                retryExecutionId(val)))
      [] kind = "runWorkflow" ->
            IF extractId(val) = "" THEN Thrown(NoExecutionId)
            ELSE Returned(ExecutionIdOf(extractId(val)))
      [] OTHER -> Returned(val)

----------------------------------------------------------------------------
(* The state machine *)

Constructor(projectId, retries, timeoutMs, debug) ==
    [projectId |-> projectId, retries |-> retries, timeoutMs |-> timeoutMs, debug |-> debug]

(* The engines explored: every combination of the values above, the       *)
(* deepest retry budgets on engines without a scope                        *)
Profiles ==
    { prof \in {Constructor(p, r, t, FALSE) : p \in ProjectIds, r \in RetriesValues,
                                        t \in TimeoutValues} :
        prof.retries > MaxScopedRetries =>
            prof.projectId = "" /\ prof.timeoutMs = DefaultTimeoutMs }

NoTask == [kind |-> "none", status |-> "idle", all |-> <<>>, cursor |-> "undef",
           cursors |-> <<>>, pages |-> <<>>, cursorFrom |-> NoPath,
           batch |-> "none", index |-> 0, visited |-> <<>>, ok |-> 0]
NoFn == [name |-> "", arg |-> <<>>, out |-> <<>>]

(* The engine after construction, before its first operation *)
Idle ==
    /\ pc = "idle"
    /\ op = [kind |-> "", arg |-> ""]
    /\ path = NoPath
    /\ attempt = 0
    /\ fetches = 0
    /\ delays = <<>>
    /\ lastErr = UndefinedErr
    /\ timerArmed = FALSE
    /\ elapsed = FALSE
    /\ sent = <<>>
    /\ lastOutcome = Pending
    /\ firstSend = NoSend
    /\ result = Pending
    /\ fellBack = FALSE
    /\ inflight = 0
    /\ stderr = FALSE
    /\ task = NoTask
    /\ fn = NoFn

Init ==
    /\ profile \in Profiles
    /\ Idle

(* The engines with debug set or not, with few retries *)
InitDebug ==
    /\ profile \in { Constructor(p, r, DefaultTimeoutMs, d) :
                        p \in ProjectIds, r \in {-1, 0, 1}, d \in BOOLEAN }
    /\ Idle

(* Mutant: the engine logs whether debug is set or not *)
Log_Always(out) ==
    TRUE

(* this.log: console.error when debug is set *)
Log(out) ==
    out \/ profile.debug

(* Mutant: the loop variable of the request before is kept *)
BeginRequest_KeepsAttempt(p) ==
    /\ pc' = "loop"
    /\ path' = p
    /\ profile' = profile
    /\ attempt' = attempt
    /\ fetches' = 0
    /\ delays' = <<>>
    /\ lastErr' = UndefinedErr

(* Entry of N8nClient.request for the given path *)
BeginRequest(p) ==
    /\ pc' = "loop"
    /\ path' = p
    /\ profile' = profile
    /\ attempt' = 0
    /\ fetches' = 0
    /\ delays' = <<>>
    /\ lastErr' = UndefinedErr

(* An operation is called: it computes its path and enters the request *)
Call(kind, arg) ==
    /\ pc \in {"idle", "done"}
    /\ op' = [kind |-> kind, arg |-> arg]
    /\ BeginRequest(FirstPath(profile, kind, arg))
    /\ sent' = <<FirstPath(profile, kind, arg)>>
    /\ lastOutcome' = Pending
    /\ firstSend' = NoSend
    /\ result' = Pending
    /\ fellBack' = (fellBack \/ firstSend # NoSend)
    /\ timerArmed' = FALSE
    /\ elapsed' = FALSE
    /\ stderr' = stderr

(* A caller invokes one operation of the engine *)
Invoke(kind, arg) ==
    /\ task.kind = "none"
    /\ Call(kind, arg)
    /\ UNCHANGED <<inflight, task, fn>>

(* The request returned val to the operation *)
RequestReturns(val) ==
    /\ pc' = "done"
    /\ lastOutcome' = Returned(val)
    /\ result' = OpResult(op.kind, val)
    /\ UNCHANGED <<profile, path, attempt, fetches, delays, lastErr, sent, firstSend,
                   fellBack>>

(* Mutant: a fallback clears the scope of the engine *)
RequestThrows_ClearsScope(err) ==
    IF firstSend = NoSend /\ FallsBack(profile, op.kind, op.arg, err)
    THEN /\ firstSend' = [path |-> path, fetches |-> fetches, delays |-> delays, err |-> err]
         /\ pc' = "loop"
         /\ path' = Unscoped
         /\ profile' = [profile EXCEPT !.projectId = ""]
         /\ attempt' = 0
         /\ fetches' = 0
         /\ delays' = <<>>
         /\ lastErr' = UndefinedErr
         /\ sent' = Append(sent, Unscoped)
         /\ lastOutcome' = Thrown(err)
         /\ UNCHANGED <<result, fellBack, stderr>>
    ELSE /\ pc' = "done"
         /\ lastOutcome' = Thrown(err)
         /\ result' = Thrown(err)
         /\ lastErr' = err
         /\ UNCHANGED <<profile, path, attempt, fetches, delays, sent, firstSend,
                        fellBack, stderr>>

(* The request threw err to the operation: its catch block either sends    *)
(* the request again on the unscoped path or rethrows                      *)
RequestThrows(err) ==
    IF firstSend = NoSend /\ FallsBack(profile, op.kind, op.arg, err)
    THEN /\ firstSend' = [path |-> path, fetches |-> fetches, delays |-> delays, err |-> err]
         /\ BeginRequest(FallbackPath(op.kind))
         /\ sent' = Append(sent, FallbackPath(op.kind))
         /\ lastOutcome' = Thrown(err)
         /\ UNCHANGED <<result, fellBack, stderr>>
    ELSE /\ pc' = "done"
         /\ lastOutcome' = Thrown(err)
         /\ result' = Thrown(err)
         /\ lastErr' = err
         /\ UNCHANGED <<profile, path, attempt, fetches, delays, sent, firstSend,
                        fellBack, stderr>>

(* Mutant: the delay is not capped *)
Backoff_Uncapped(k) ==
    BackoffBaseMs * 2^k

Backoff(k) ==
    IF BackoffBaseMs * 2^k < BackoffCapMs THEN BackoffBaseMs * 2^k ELSE BackoffCapMs

(* Mutant: when the retries are used up the error kept from the attempt  *)
(* before is thrown                                                        *)
Catch_ThrowsEarlierError(err) ==
    IF attempt < profile.retries /\ isRetryable(err, err.status)
    THEN /\ lastErr' = err
         /\ delays' = Append(delays, Backoff(attempt))
         /\ pc' = "sleeping"
         /\ stderr' = Log(stderr)
         /\ UNCHANGED <<profile, path, attempt, fetches, sent, lastOutcome, firstSend,
                        result, fellBack>>
    ELSE RequestThrows(IF lastErr = UndefinedErr THEN err ELSE lastErr)

(* The catch block of the retry loop *)
Catch(err) ==
    IF attempt < profile.retries /\ isRetryable(err, err.status)
    THEN /\ lastErr' = err
         /\ delays' = Append(delays, Backoff(attempt))
         /\ pc' = "sleeping"
         /\ stderr' = Log(stderr)
         /\ UNCHANGED <<profile, path, attempt, fetches, sent, lastOutcome, firstSend,
                        result, fellBack>>
    ELSE RequestThrows(err)

(* fetch sends one more request *)
Opened(n) == n + 1

(* Mutant: the request of an attempt that ended stays open *)
Closed_LeftOpen(n) ==
    n

(* The request is settled: fetch rejected or was aborted, or the body was  *)
(* read or failed to arrive                                                 *)
Closed(n) ==
    n - 1

(* Top of the retry loop, condition true: doRequest arms the timer and     *)
(* calls fetch                                                             *)
StartAttempt ==
    /\ inflight' = Opened(inflight)
    /\ stderr' = Log(stderr)
    /\ UNCHANGED <<task, fn>>
    /\ pc = "loop"
    /\ attempt <= profile.retries
    /\ pc' = "fetching"
    /\ fetches' = fetches + 1
    /\ timerArmed' = TRUE
    /\ elapsed' = FALSE
    /\ UNCHANGED <<profile, op, path, attempt, delays, lastErr, sent, lastOutcome,
                   firstSend, result, fellBack>>

(* Top of the retry loop, condition false: throw lastErr *)
LoopExit ==
    /\ UNCHANGED <<inflight, task, fn>>
    /\ pc = "loop"
    /\ attempt > profile.retries
    /\ RequestThrows(lastErr)
    /\ UNCHANGED <<op, timerArmed, elapsed>>

(* fetch resolves with a response; the timer is cleared before the body is *)
(* read                                                                    *)
FetchResponds ==
    /\ UNCHANGED <<inflight, stderr, task, fn>>
    /\ pc = "fetching"
    /\ pc' = "reading"
    /\ timerArmed' = FALSE
    /\ UNCHANGED <<profile, op, path, attempt, fetches, delays, lastErr, elapsed,
                   sent, lastOutcome, firstSend, result, fellBack>>

(* fetch rejects with a transport error *)
FetchRejects(err) ==
    /\ inflight' = Closed(inflight)
    /\ UNCHANGED <<task, fn>>
    /\ pc = "fetching"
    /\ timerArmed' = FALSE
    /\ Catch(err)
    /\ UNCHANGED <<op, elapsed>>

(* timeoutMs elapses while the timer is pending: the controller aborts,    *)
(* fetch rejects with an AbortError and doRequest throws the timeout error *)
TimerFires ==
    /\ inflight' = Closed(inflight)
    /\ UNCHANGED <<task, fn>>
    /\ pc = "fetching"
    /\ timerArmed
    /\ timerArmed' = FALSE
    /\ elapsed' = FALSE
    /\ Catch(TimeoutError(profile.timeoutMs))
    /\ UNCHANGED op

(* timeoutMs elapses after the timer was cleared: nothing runs *)
DeadlinePasses ==
    /\ UNCHANGED <<inflight, stderr, task, fn>>
    /\ pc = "reading"
    /\ ~timerArmed
    /\ ~elapsed
    /\ elapsed' = TRUE
    /\ UNCHANGED <<profile, pc, op, path, attempt, fetches, delays, lastErr, timerArmed,
                   sent, lastOutcome, firstSend, result, fellBack>>

ResOk(status) == status >= 200 /\ status <= 299

(* res.text() resolves with the body of a non-2xx response *)
ReadErrorBody(status, body) ==
    /\ inflight' = Closed(inflight)
    /\ UNCHANGED <<task, fn>>
    /\ pc = "reading"
    /\ ~ResOk(status)
    /\ elapsed' = FALSE
    /\ Catch(HttpError(status, body))
    /\ UNCHANGED <<op, timerArmed>>

(* res.text() resolves with the body of a 2xx response *)
ReadOkBody(status, res) ==
    /\ inflight' = Closed(inflight)
    /\ UNCHANGED <<task, fn>>
    /\ pc = "reading"
    /\ ResOk(status)
    /\ elapsed' = FALSE
    /\ IF res.jsonType /\ res.text = "invalid"
       THEN \E e \in SyntaxErrors(res.raw) : Catch(e)
       ELSE /\ RequestReturns(IF res.jsonType /\ res.text = "valid"
                              THEN res.value ELSE UndefinedVal)
            /\ stderr' = IF res.jsonType THEN Log(stderr) ELSE stderr
    /\ UNCHANGED <<op, timerArmed>>

(* res.text() rejects: the connection failed while the body was read *)
ReadFails(err) ==
    /\ inflight' = Closed(inflight)
    /\ UNCHANGED <<task, fn>>
    /\ pc = "reading"
    /\ elapsed' = FALSE
    /\ Catch(err)
    /\ UNCHANGED <<op, timerArmed>>

(* Mutant: the loop variable is not incremented *)
Wake_NoIncrement ==
    /\ UNCHANGED <<inflight, stderr, task, fn>>
    /\ pc = "sleeping"
    /\ pc' = "loop"
    /\ UNCHANGED <<profile, op, path, attempt, fetches, delays, lastErr, timerArmed,
                   elapsed, sent, lastOutcome, firstSend, result, fellBack>>

(* The backoff delay is over: next iteration of the retry loop *)
Wake ==
    /\ UNCHANGED <<inflight, stderr, task, fn>>
    /\ pc = "sleeping"
    /\ pc' = "loop"
    /\ attempt' = attempt + 1
    /\ UNCHANGED <<profile, op, path, fetches, delays, lastErr, timerArmed, elapsed,
                   sent, lastOutcome, firstSend, result, fellBack>>

Next ==
    \/ \E kind \in (PrimaryOps \ {"create"}) \cup SecondaryOps : Invoke(kind, "")
    \/ \E arg \in CreateArgs : Invoke("create", arg)
    \/ StartAttempt
    \/ LoopExit
    \/ FetchResponds
    \/ \E err \in TransportErrors : FetchRejects(err)
    \/ TimerFires
    \/ DeadlinePasses
    \/ \E f \in HttpFailures : ReadErrorBody(f[1], f[2])
    \/ \E res \in OkResponses : ReadOkBody(200, res)
    \/ \E err \in TransportErrors : ReadFails(err)
    \/ Wake

Spec == Init /\ [][Next]_vars

----------------------------------------------------------------------------
(* listWorkflowsAll and listExecutionsAll *)

\* the pages one run of the loop may fetch
MaxPages == 3

(* The pages a server answers with: records out of order, records it       *)
(* repeats, a page without data, and a next-page token that is a string,   *)
(* the empty string or absent                                              *)
PageValues ==
    { MkVal(TRUE, <<"A", "B">>, "c1", "undef", "undef", "undef", "undef"),
      MkVal(TRUE, <<"B", "A">>, "c2", "undef", "undef", "undef", "undef"),
      MkVal(TRUE, <<"C">>, "undef", "undef", "undef", "undef", "undef"),
      MkVal(TRUE, <<"A">>, "", "undef", "undef", "undef", "undef"),
      MkVal(TRUE, Undef, "c1", "undef", "undef", "undef", "undef") }

PageResponses ==
    [jsonType : {TRUE}, text : {"valid"}, value : PageValues, raw : {<<>>}]
    \cup [jsonType : {FALSE}, text : {"empty"}, value : {UndefinedVal}, raw : {<<>>}]

PageFailures == { f \in HttpFailures : f[1] \in {404, 500} }

PageOp(kind) == IF kind = "listWorkflowsAll" THEN "list" ELSE "listExecutions"

(* JavaScript truthiness of a string or undefined *)
Truthy(str) == str \notin {"undef", ""}

(* The cursor parameter of the query string *)
CursorParam(cursor) == IF Truthy(cursor) THEN cursor ELSE ""

(* res.data ?? [] *)
DataOf(res) == IF res.data = Undef THEN <<>> ELSE res.data

(* Mutant: a record seen before is not added again *)
Accumulate_Dedup(all, res) ==
    all \o SelectSeq(DataOf(res), LAMBDA x : \A i \in 1..Len(all) : all[i] # x)

(* all.push(...(res.data ?? [])) *)
Accumulate(all, res) ==
    all \o DataOf(res)

(* The loop is entered: the first page is asked for without a cursor *)
StartListAll(kind) ==
    /\ task.kind = "none"
    /\ task' = [NoTask EXCEPT !.kind = kind, !.status = "running",
                              !.cursors = <<CursorParam("undef")>>]
    /\ Call(PageOp(kind), "")
    /\ UNCHANGED <<inflight, fn>>

(* A page came back with a cursor: the loop asks for the next page *)
NextPage ==
    /\ task.status = "running"
    /\ pc = "done"
    /\ result.kind = "ok"
    /\ Truthy(result.val.nextCursor)
    /\ Len(task.pages) + 1 < MaxPages
    /\ task' = [task EXCEPT !.all = Accumulate(task.all, result.val),
                            !.cursor = result.val.nextCursor,
                            !.cursors = Append(@, CursorParam(result.val.nextCursor)),
                            !.pages = Append(@, result.val),
                            !.cursorFrom = path]
    /\ Call(PageOp(task.kind), "")
    /\ UNCHANGED <<inflight, fn>>

(* A page came back without a cursor: the loop ends and returns all *)
ListAllReturns ==
    /\ task.status = "running"
    /\ pc = "done"
    /\ result.kind = "ok"
    /\ ~Truthy(result.val.nextCursor)
    /\ task' = [task EXCEPT !.all = Accumulate(task.all, result.val),
                            !.cursor = result.val.nextCursor,
                            !.pages = Append(@, result.val),
                            !.cursorFrom = NoPath,
                            !.status = "returned"]
    /\ UNCHANGED <<profile, pc, op, path, attempt, fetches, delays, lastErr, timerArmed,
                   elapsed, sent, lastOutcome, firstSend, result, fellBack, inflight, stderr, fn>>

(* A page threw: nothing catches it *)
ListAllThrows ==
    /\ task.status = "running"
    /\ pc = "done"
    /\ result.kind = "err"
    /\ task' = [task EXCEPT !.status = "threw"]
    /\ UNCHANGED <<profile, pc, op, path, attempt, fetches, delays, lastErr, timerArmed,
                   elapsed, sent, lastOutcome, firstSend, result, fellBack, inflight, stderr, fn>>

InitListAll ==
    /\ Init
    /\ profile.retries \in {-1, 0, 1}
    /\ profile.timeoutMs = DefaultTimeoutMs

NextListAll ==
    \/ \E kind \in {"listWorkflowsAll", "listExecutionsAll"} : StartListAll(kind)
    \/ NextPage
    \/ ListAllReturns
    \/ ListAllThrows
    \/ StartAttempt
    \/ LoopExit
    \/ FetchResponds
    \/ \E err \in TransportErrors : FetchRejects(err)
    \/ TimerFires
    \/ DeadlinePasses
    \/ \E f \in PageFailures : ReadErrorBody(f[1], f[2])
    \/ \E res \in PageResponses : ReadOkBody(200, res)
    \/ \E err \in TransportErrors : ReadFails(err)
    \/ Wake

SpecListAll == InitListAll /\ [][NextListAll]_vars

(* The operations of Spec on engines with debug set or not *)
SpecDebug == InitDebug /\ [][Next]_vars

(* The operations of Spec on the engines with few retries *)
SpecRetry == InitListAll /\ [][Next]_vars

----------------------------------------------------------------------------
(* runWorkflow and retryExecution *)

IdValues == {"undef", "e1", "e2"}

(* The bodies built from the optional fields data.id, data.executionId, id *)
(* and executionId, and the body that is no object                         *)
IdBodies ==
    { MkVal(TRUE, Undef, "undef", di, de, i, e) :
        di \in IdValues, de \in IdValues, i \in IdValues, e \in IdValues }

IdResponses ==
    [jsonType : {TRUE}, text : {"valid"}, value : IdBodies, raw : {<<>>}]
    \cup [jsonType : {TRUE}, text : {"empty"}, value : {UndefinedVal}, raw : {<<>>}]

InitRun ==
    /\ Init
    /\ profile.retries \in {-1, 0, 1}
    /\ profile.timeoutMs = DefaultTimeoutMs
    /\ profile.projectId = ""

NextRun ==
    \/ \E kind \in {"runWorkflow", "retryExecution"} : Invoke(kind, "")
    \/ StartAttempt
    \/ LoopExit
    \/ FetchResponds
    \/ \E err \in TransportErrors : FetchRejects(err)
    \/ TimerFires
    \/ DeadlinePasses
    \/ \E f \in PageFailures : ReadErrorBody(f[1], f[2])
    \/ \E res \in IdResponses : ReadOkBody(200, res)
    \/ \E err \in TransportErrors : ReadFails(err)
    \/ Wake

SpecRun == InitRun /\ [][NextRun]_vars

----------------------------------------------------------------------------
(* toFriendlyApiError *)

(* The values a catch block hands over: an Error with a message and maybe  *)
(* a cause, a string, or a number.  The message field of a cause is        *)
(* absent, a string or a number.                                           *)
MkCause(present, messageType, message, code) ==
    [present |-> present, messageType |-> messageType, message |-> message, code |-> code]

NoCause == MkCause(FALSE, "absent", <<>>, "")

MkThrown(kind, message, number, cause) ==
    [kind |-> kind, message |-> message, number |-> number, cause |-> cause]

Fragments ==
    { <<>>, P401, PUnauthorized, P403, PForbidden, P404, PNotFound, PGetaddrinfo,
      PSelfSigned, PTimedOut, PAbortError, PApiError, PFetchFailed, <<"boom">> }

Messages == { a \o b : a \in Fragments, b \in Fragments }

CauseMessages ==
    { <<>>, <<"getaddrinfo ", "ENOTFOUND", " n8n.local">>, <<"connect ", "ECONNREFUSED">>,
      <<"SELF_SIGNED_CERT", "_IN_CHAIN">>, <<"socket hang up">> }

CauseCodes == {"", "ENOTFOUND", "ECONNREFUSED", "SELF_SIGNED_CERT_IN_CHAIN", "EPIPE"}

Causes ==
    {NoCause}
    \cup { MkCause(TRUE, "string", m, c) : m \in CauseMessages, c \in CauseCodes }
    \cup { MkCause(TRUE, t, <<>>, c) : t \in {"absent", "number"}, c \in CauseCodes }

ThrownValues ==
    { MkThrown("Error", m, 0, c) : m \in Messages, c \in Causes }
    \cup { MkThrown("string", m, 0, NoCause) : m \in Messages }
    \cup { MkThrown("number", <<>>, n, NoCause) : n \in {404, 7} }
    \cup { MkThrown("Error", TimeoutError(t).message, 0, NoCause) : t \in TimeoutValues }

(* Mutant: a string is rendered with quotes, as util.inspect does *)
StringOf_Inspect(err) ==
    IF err.kind = "number" THEN Digits(err.number) ELSE <<"'">> \o err.message \o <<"'">>

(* String(err) of a value that is no Error *)
StringOf(err) == IF err.kind = "number" THEN Digits(err.number) ELSE err.message

FnReturns(text) == [threw |-> FALSE, text |-> text]
FnThrows(text) == [threw |-> TRUE, text |-> text]

InvalidApiKey == <<"Invalid API key. Update apiKey in your config">>
AccessDenied == <<"Access denied (403). Check that your API key has the required permissions.">>
InstanceNotFound == <<"n8n instance not found. Check baseUrl in your config">>
CannotResolve == <<"Cannot resolve n8n hostname. Check baseUrl in your config">>
CannotConnect == <<"Cannot connect to n8n. Is it running?">>
SelfSignedRejected == <<"Self-signed certificate rejected.">>
RequestTimedOut == <<"Request timed out. Check baseUrl and network.">>
ConfigHint == <<"\n  Check baseUrl and apiKey in your config.">>
ConnectionFailed == <<"Connection failed: ">>
EnvHint == <<"\n  Check baseUrl and apiKey in your config (n8n-config.local.json or env vars).">>

(* The chain of if statements of toFriendlyApiError.  causeMsg is the      *)
(* message of the cause when that is not nullish; its includes method is   *)
(* called first in the fourth condition, after the test of causeCode, and  *)
(* a number has no such method                                             *)
toFriendlyApiError(err) ==
    LET msg == IF err.kind = "Error" THEN err.message ELSE StringOf(err)
        causeIsString == ~(err.cause.present /\ err.cause.messageType = "number")
        causeMsg == IF err.cause.present /\ err.cause.messageType = "string"
                    THEN err.cause.message ELSE <<>>
        causeCode == IF err.cause.present THEN err.cause.code ELSE ""
    IN  IF Includes(msg, P401) \/ Includes(msg, PUnauthorized) THEN FnReturns(InvalidApiKey)
        ELSE IF Includes(msg, P403) \/ Includes(msg, PForbidden) THEN FnReturns(AccessDenied)
        ELSE IF Includes(msg, P404) \/ Includes(msg, PNotFound) THEN FnReturns(InstanceNotFound)
        ELSE IF causeCode = "ENOTFOUND" THEN FnReturns(CannotResolve)
        ELSE IF ~causeIsString THEN FnThrows(<<"TypeError: causeMsg.includes is not a function">>)
        ELSE IF Includes(causeMsg, PENotFound) \/ Includes(msg, PGetaddrinfo)
             THEN FnReturns(CannotResolve)
        ELSE IF causeCode = "ECONNREFUSED" \/ Includes(causeMsg, PConnRefused)
             THEN FnReturns(CannotConnect)
        ELSE IF \/ causeCode = "SELF_SIGNED_CERT_IN_CHAIN"
                \/ Includes(causeMsg, PSelfSignedCert)
                \/ Includes(msg, PSelfSigned)
             THEN FnReturns(SelfSignedRejected)
        ELSE IF Includes(msg, PTimedOut) \/ Includes(msg, PAbortError)
             THEN FnReturns(RequestTimedOut)
        ELSE IF Includes(msg, PApiError) THEN FnReturns(msg \o ConfigHint)
        ELSE IF Includes(msg, PFetchFailed) \/ causeMsg # <<>>
             THEN FnReturns(ConnectionFailed \o (IF causeMsg # <<>> THEN causeMsg ELSE msg)
                            \o EnvHint)
        ELSE FnReturns(msg)

(* A catch block of the CLI passes what it caught to toFriendlyApiError *)
Classify(err) ==
    /\ fn.name = ""
    /\ fn' = [name |-> "toFriendlyApiError", arg |-> err, out |-> toFriendlyApiError(err)]
    /\ UNCHANGED <<profile, pc, op, path, attempt, fetches, delays, lastErr, timerArmed,
                   elapsed, sent, lastOutcome, firstSend, result, fellBack, inflight, stderr, task>>

InitFriendly ==
    /\ Init
    /\ profile = Constructor("", 0, DefaultTimeoutMs, FALSE)

NextFriendly ==
    \E err \in ThrownValues : Classify(err)

SpecFriendly == InitFriendly /\ [][NextFriendly]_vars

----------------------------------------------------------------------------
(* doRequest after fetch resolved: status, content type and body *)

MkResponse(status, jsonType, text, value, message, errorMessage, raw) ==
    [status |-> status, jsonType |-> jsonType, text |-> text, value |-> value,
     message |-> message, errorMessage |-> errorMessage, raw |-> raw]

(* The statuses fetch resolves with *)
Statuses == {200, 201, 204, 299, 300, 304, 400, 401, 404, 429, 500, 503}

(* Bodies: empty, text that is no JSON, and JSON objects with or without   *)
(* message and error.message, the message possibly the empty string        *)
Responses ==
    { MkResponse(st, jt, b[1], b[2], b[3], b[4], b[5]) :
        st \in Statuses, jt \in BOOLEAN,
        b \in { <<"empty", UndefinedVal, Undef, Undef, <<>>>>,
                <<"invalid", UndefinedVal, Undef, Undef, <<"<html>">>>>,
                <<"valid", EmptyObject, Undef, Undef, <<"{}">>>>,
                <<"valid", EmptyObject, <<"bad key">>, Undef, <<"{message}">>>>,
                <<"valid", EmptyObject, Undef, <<"nested">>, <<"{error}">>>>,
                <<"valid", EmptyObject, <<"bad key">>, <<"nested">>, <<"{message,error}">>>>,
                <<"valid", EmptyObject, <<>>, <<"nested">>, <<"{message:'',error}">>>>,
                <<"valid", MkVal(TRUE, <<"A", "B">>, "c1", "undef", "undef", "undef", "undef"),
                  Undef, Undef, <<"{data,nextCursor}">>>> } }

(* The text as parseApiError sees it *)
ErrorBodyOf(r) == MkBody(r.text = "valid", r.message, r.errorMessage, r.raw)

(* What doRequest throws or returns for the response *)
doRequestOutcomes(r) ==
    IF ~ResOk(r.status) THEN {Thrown(HttpError(r.status, ErrorBodyOf(r)))}
    ELSE IF r.jsonType
         THEN IF r.text = "empty" THEN {Returned(UndefinedVal)}
              ELSE IF r.text = "valid" THEN {Returned(r.value)}
              ELSE {Thrown(e) : e \in SyntaxErrors(r.raw)}
         ELSE {Returned(UndefinedVal)}

(* What a list operation returns when its request had the outcome o *)
PageOf(kind, o) == IF o.kind = "ok" THEN OpResult(kind, o.val) ELSE o

(* listWorkflows / listExecutions: res?.data ?? [] of the page *)
ListOf(page) == IF page.kind = "ok" THEN DataOf(page.val) ELSE Undef

(* A response arrives; the outcome of the request is handed to the list    *)
(* operations                                                              *)
Respond(r) ==
    /\ fn.name = ""
    /\ \E o \in doRequestOutcomes(r) :
          fn' = [name |-> "doRequest", arg |-> r,
                 out |-> [request |-> o,
                          listWorkflowsPaginated |-> PageOf("list", o),
                          listExecutionsPaginated |-> PageOf("listExecutions", o),
                          listWorkflows |-> ListOf(PageOf("list", o)),
                          listExecutions |-> ListOf(PageOf("listExecutions", o))]]
    /\ UNCHANGED <<profile, pc, op, path, attempt, fetches, delays, lastErr, timerArmed,
                   elapsed, sent, lastOutcome, firstSend, result, fellBack, inflight, stderr, task>>

NextResponse ==
    \E r \in Responses : Respond(r)

SpecResponse == InitFriendly /\ [][NextResponse]_vars

----------------------------------------------------------------------------
(* activateAllWorkflows and deactivateAllWorkflows of the CLI *)

BatchOp(batch) == IF batch = "activateAll" THEN "activate" ELSE "deactivate"

(* for (const w of inactive): the workflow of the iteration after index *)
NextItem(items, index) == items[index + 1]

(* ok++ after an awaited call that did not throw *)
OkAfter(t, res) == IF t.status = "batch" /\ res.kind = "ok" THEN t.ok + 1 ELSE t.ok

(* The command lists the workflows to change with listWorkflowsAll *)
StartBatch(batch) ==
    /\ task.kind = "none"
    /\ task' = [NoTask EXCEPT !.kind = "listWorkflowsAll", !.status = "running",
                              !.cursors = <<CursorParam("undef")>>, !.batch = batch]
    /\ Call("list", "")
    /\ UNCHANGED <<inflight, fn>>

(* One iteration of the for loop: the call for the next workflow is made   *)
(* once the list, or the call for the workflow before, has settled         *)
BatchNext ==
    /\ task.batch # "none"
    /\ task.status \in {"returned", "batch"}
    /\ pc = "done"
    /\ task.index < Len(task.all)
    /\ task' = [task EXCEPT !.status = "batch",
                            !.index = @ + 1,
                            !.visited = Append(@, NextItem(task.all, task.index)),
                            !.ok = OkAfter(task, result)]
    /\ Call(BatchOp(task.batch), "")
    /\ UNCHANGED <<inflight, fn>>

(* The list is empty or every workflow was visited: the command reports    *)
BatchEnds ==
    /\ task.batch # "none"
    /\ task.status \in {"returned", "batch"}
    /\ pc = "done"
    /\ task.index = Len(task.all)
    /\ task' = [task EXCEPT !.status = "finished", !.ok = OkAfter(task, result)]
    /\ UNCHANGED <<profile, pc, op, path, attempt, fetches, delays, lastErr, timerArmed,
                   elapsed, sent, lastOutcome, firstSend, result, fellBack, inflight, stderr, fn>>

NextBatch ==
    \/ \E batch \in {"activateAll", "deactivateAll"} : StartBatch(batch)
    \/ NextPage
    \/ ListAllReturns
    \/ ListAllThrows
    \/ BatchNext
    \/ BatchEnds
    \/ StartAttempt
    \/ LoopExit
    \/ FetchResponds
    \/ \E err \in TransportErrors : FetchRejects(err)
    \/ TimerFires
    \/ DeadlinePasses
    \/ \E f \in PageFailures : ReadErrorBody(f[1], f[2])
    \/ \E res \in PageResponses : ReadOkBody(200, res)
    \/ \E err \in TransportErrors : ReadFails(err)
    \/ Wake

SpecBatch == InitListAll /\ [][NextBatch]_vars

-----------------------------------------------------------------------------
(* The request URL: new N8nClient(config) and getUrl(path).  A text is a   *)
(* sequence of symbols, '/' being one symbol.                              *)

\* most '/' characters at the end of a configured baseUrl
MaxSlashes == 3

API_VERSION == "v1"

(* The configured addresses: an origin, then some '/' characters *)
BaseUrls ==
    { o \o [i \in 1..n |-> "/"] :
        o \in { <<"http:", "/", "/", "localhost:5678">>,
                <<"https:", "/", "/", "test.com">>,
                <<"https:", "/", "/", "n8n.example.com", "/", "base">>,
                <<>> },
        n \in 0..MaxSlashes }

UrlPaths ==
    { <<"/", "workflows">>, <<"workflows">>,
      <<"/", "executions">>, <<"executions">>,
      <<"/", "projects", "/", "p1", "/", "workflows">>,
      <<"/", "workflows", "/", "run">>,
      <<"/", "workflows", "/", "w1", "/", "activate">>,
      <<"/">> }

(* config.baseUrl.replace(/\/$/, ''): the '/' the text ends with, if any *)
StripTrailingSlash(s) ==
    IF s # <<>> /\ s[Len(s)] = "/" THEN SubSeq(s, 1, Len(s) - 1) ELSE s

getUrl(baseUrl, p) ==
    LET base == baseUrl \o <<"/", "api", "/", API_VERSION>>
        q == IF p # <<>> /\ p[1] = "/" THEN p ELSE <<"/">> \o p
    IN  base \o q

(* An engine is constructed from a configuration and builds a request URL *)
BuildUrl(configured, p) ==
    /\ fn.name = ""
    /\ LET baseUrl == StripTrailingSlash(configured)
       IN  fn' = [name |-> "getUrl",
                  arg |-> [baseUrl |-> configured, path |-> p],
                  out |-> [baseUrl |-> baseUrl, url |-> getUrl(baseUrl, p)]]
    /\ UNCHANGED <<profile, pc, op, path, attempt, fetches, delays, lastErr, timerArmed,
                   elapsed, sent, lastOutcome, firstSend, result, fellBack, inflight, stderr, task>>

SpecUrl ==
    InitFriendly /\ [][\E configured \in BaseUrls, p \in UrlPaths : BuildUrl(configured, p)]_vars

-----------------------------------------------------------------------------
(* loadConfig.  An environment variable and a field of a file are texts,   *)
(* Undef when absent; ' ' is the one whitespace symbol.                    *)

(* String.prototype.trim *)
RECURSIVE Trim(_)
Trim(s) ==
    IF s # <<>> /\ s[1] = " " THEN Trim(Tail(s))
    ELSE IF s # <<>> /\ s[Len(s)] = " " THEN Trim(SubSeq(s, 1, Len(s) - 1))
    ELSE s

(* process.env.X?.trim() *)
OptTrim(v) ==
    IF v = Undef THEN Undef ELSE Trim(v)

(* a text that is neither undefined nor '' *)
NonEmpty(v) ==
    v # Undef /\ v # <<>>

MkConfig(baseUrl, apiKey, projectId, rejectUnauthorized) ==
    [baseUrl |-> baseUrl, apiKey |-> apiKey, projectId |-> projectId,
     rejectUnauthorized |-> rejectUnauthorized]

NoConfig == MkConfig(Undef, Undef, Undef, "undef")

(* process.env: the five variables loadConfig reads *)
Envs ==
    [N8N_BASE_URL : {Undef, <<>>, <<" ">>, <<" ", "https://env.example.com", " ">>},
     N8N_API_KEY : {Undef, <<" ">>, <<"env-key">>},
     N8N_PROJECT_ID : {Undef, <<" ">>, <<"proj-123">>},
     N8N_REJECT_UNAUTHORIZED : {Undef, <<"false">>, <<"true">>},
     N8N_CONFIG_FILE : {Undef, <<" ">>, <<" ", "my-config.json">>, <<"/", "tmp/config.json">>}]

(* What a read of one candidate finds: no file, a text that is not JSON,   *)
(* the JSON null, or a JSON object                                         *)
Files ==
    [kind : {"ENOENT", "unparsable", "null"}, config : {NoConfig}]
        \cup [kind : {"object"},
              config : [baseUrl : {Undef, <<>>, <<"https://file.example.com">>},
                        apiKey : {Undef, <<>>, <<"file-key">>},
                        projectId : {Undef, <<"proj-file">>},
                        rejectUnauthorized : {"undef", "false"}]]

(* const candidates = [cwd, cwd/.., __dirname/.., __dirname/../..] *)
CandidateDirs == <<"cwd", "cwd/..", "__dirname/..", "__dirname/../..">>

(* const configNames = configFile ? [configFile] : [local, plain] *)
ConfigNames(env) ==
    LET configFile == OptTrim(env.N8N_CONFIG_FILE)
    IN  IF NonEmpty(configFile) THEN <<configFile>>
        ELSE << <<"config/n8n-config.local.json">>, <<"config/n8n-config.json">> >>

(* path.isAbsolute(name) ? name : path.join(rootDir, name) *)
ConfigPath(rootDir, name) ==
    IF name[1] = "/" THEN [dir |-> "", name |-> name] ELSE [dir |-> rootDir, name |-> name]

(* Mutant: a file needs only its baseUrl to be returned *)
Usable_BaseUrlOnly(file) ==
    /\ file.kind = "object"
    /\ NonEmpty(file.config.baseUrl)

(* The try block reaches its return: the file is read, parses to an object *)
(* and holds a baseUrl and an apiKey                                       *)
Usable(file) ==
    /\ file.kind = "object"
    /\ NonEmpty(file.config.baseUrl)
    /\ NonEmpty(file.config.apiKey)

(* The state of one call: where the loops stand, the paths read so far,    *)
(* what the last read found, and the configuration returned                *)
MkLoad(at, dir, name, reads, file, config) ==
    [pc |-> at, dir |-> dir, name |-> name, reads |-> reads, file |-> file, config |-> config]

(* Mutant: the scope variable of the environment is never read *)
FromEnv_NoScope(env) ==
    MkConfig(OptTrim(env.N8N_BASE_URL), OptTrim(env.N8N_API_KEY), Undef,
             IF env.N8N_REJECT_UNAUTHORIZED # <<"false">> THEN "true" ELSE "false")

(* The configuration built from the environment variables *)
FromEnv(env) ==
    MkConfig(OptTrim(env.N8N_BASE_URL), OptTrim(env.N8N_API_KEY),
             IF NonEmpty(OptTrim(env.N8N_PROJECT_ID)) THEN OptTrim(env.N8N_PROJECT_ID) ELSE Undef,
             IF env.N8N_REJECT_UNAUTHORIZED # <<"false">> THEN "true" ELSE "false")

(* loadConfig is called: it returns from the environment, or enters the loops *)
LoadConfig(env) ==
    /\ fn.name = ""
    /\ fn' = [name |-> "loadConfig", arg |-> env,
              out |-> IF NonEmpty(OptTrim(env.N8N_BASE_URL)) /\ NonEmpty(OptTrim(env.N8N_API_KEY))
                      THEN MkLoad("returned", 0, 0, <<>>, [kind |-> "", config |-> NoConfig], FromEnv(env))
                      ELSE MkLoad("files", 1, 1, <<>>, [kind |-> "", config |-> NoConfig], NoConfig)]
    /\ UNCHANGED <<profile, pc, op, path, attempt, fetches, delays, lastErr, timerArmed,
                   elapsed, sent, lastOutcome, firstSend, result, fellBack, inflight, stderr, task>>

(* One pass of the inner loop: the candidate is read; a usable file is     *)
(* returned as it is, anything else is caught and the loops go on          *)
ReadCandidate(file) ==
    /\ fn.name = "loadConfig"
    /\ fn.out.pc = "files"
    /\ fn.out.dir <= Len(CandidateDirs)
    /\ LET names == ConfigNames(fn.arg)
           configPath == ConfigPath(CandidateDirs[fn.out.dir], names[fn.out.name])
           reads == Append(fn.out.reads, configPath)
           last == fn.out.name = Len(names)
       IN  fn' = [fn EXCEPT !.out =
                     IF Usable(file)
                     THEN MkLoad("returned", fn.out.dir, fn.out.name, reads, file, file.config)
                     ELSE MkLoad("files",
                                 IF last THEN fn.out.dir + 1 ELSE fn.out.dir,
                                 IF last THEN 1 ELSE fn.out.name + 1,
                                 reads, file, NoConfig)]
    /\ UNCHANGED <<profile, pc, op, path, attempt, fetches, delays, lastErr, timerArmed,
                   elapsed, sent, lastOutcome, firstSend, result, fellBack, inflight, stderr, task>>

(* The loops are over: throw new Error('Failed to load n8n config. ...') *)
ConfigNotFound ==
    /\ fn.name = "loadConfig"
    /\ fn.out.pc = "files"
    /\ fn.out.dir > Len(CandidateDirs)
    /\ fn' = [fn EXCEPT !.out.pc = "thrown"]
    /\ UNCHANGED <<profile, pc, op, path, attempt, fetches, delays, lastErr, timerArmed,
                   elapsed, sent, lastOutcome, firstSend, result, fellBack, inflight, stderr, task>>

NextConfig ==
    \/ \E env \in Envs : LoadConfig(env)
    \/ \E file \in Files : ReadCandidate(file)
    \/ ConfigNotFound

SpecConfig == InitFriendly /\ [][NextConfig]_vars

-----------------------------------------------------------------------------
(* deploy-one.  The server holds a list of workflows, a workflow's id being *)
(* its place in the list; the list is served in pages, and listWorkflows    *)
(* returns the first page.                                                  *)

\* most workflows on the first page of the server's list
MaxFirstPage == 2

\* most workflows on the pages after the first
MaxLaterWorkflows == 2

WorkflowNames == {"A", "B"}

(* the lists of at most n workflows, each given by its name *)
WorkflowLists(n) ==
    UNION { [1..k -> WorkflowNames] : k \in 0..n }

(* workflows.find((w) => w.name === name): the id of the first one, 0 if none *)
Find(workflows, name) ==
    IF \E i \in 1..Len(workflows) : workflows[i] = name
    THEN CHOOSE i \in 1..Len(workflows) :
            /\ workflows[i] = name
            /\ \A j \in 1..(i - 1) : workflows[j] # name
    ELSE 0

(* deploy() is started with a workflow file; the server has later pages   *)
(* only when its first page is full                                        *)
Deploy(name, firstPage, later) ==
    /\ fn.name = ""
    /\ later # <<>> => Len(firstPage) = MaxFirstPage
    /\ fn' = [name |-> "deploy",
              arg |-> [name |-> name, firstPage |-> firstPage, later |-> later],
              out |-> [pc |-> "listWorkflows", existing |-> 0, updated |-> 0, created |-> 0,
                       activated |-> "none", exit |-> -1]]
    /\ UNCHANGED <<profile, pc, op, path, attempt, fetches, delays, lastErr, timerArmed,
                   elapsed, sent, lastOutcome, firstSend, result, fellBack, inflight, stderr, task>>

(* client.listWorkflows() returns the first page, and the name is looked up *)
ListWorkflowsReturns ==
    /\ fn.name = "deploy"
    /\ fn.out.pc = "listWorkflows"
    /\ LET existing == Find(fn.arg.firstPage, fn.arg.name)
       IN  fn' = [fn EXCEPT !.out.existing = existing,
                            !.out.pc = IF existing # 0 THEN "updateWorkflow" ELSE "createWorkflow"]
    /\ UNCHANGED <<profile, pc, op, path, attempt, fetches, delays, lastErr, timerArmed,
                   elapsed, sent, lastOutcome, firstSend, result, fellBack, inflight, stderr, task>>

UpdateWorkflowReturns ==
    /\ fn.name = "deploy"
    /\ fn.out.pc = "updateWorkflow"
    /\ fn' = [fn EXCEPT !.out.updated = fn.out.existing, !.out.pc = "activateWorkflow"]
    /\ UNCHANGED <<profile, pc, op, path, attempt, fetches, delays, lastErr, timerArmed,
                   elapsed, sent, lastOutcome, firstSend, result, fellBack, inflight, stderr, task>>

CreateWorkflowReturns ==
    /\ fn.name = "deploy"
    /\ fn.out.pc = "createWorkflow"
    /\ fn' = [fn EXCEPT !.out.created = fn.out.created + 1, !.out.pc = "activateWorkflow"]
    /\ UNCHANGED <<profile, pc, op, path, attempt, fetches, delays, lastErr, timerArmed,
                   elapsed, sent, lastOutcome, firstSend, result, fellBack, inflight, stderr, task>>

(* A call before the activation throws: deploy().catch prints and exits 1 *)
DeployFails ==
    /\ fn.name = "deploy"
    /\ fn.out.pc \in {"listWorkflows", "updateWorkflow", "createWorkflow"}
    /\ fn' = [fn EXCEPT !.out.pc = "exited", !.out.exit = 1]
    /\ UNCHANGED <<profile, pc, op, path, attempt, fetches, delays, lastErr, timerArmed,
                   elapsed, sent, lastOutcome, firstSend, result, fellBack, inflight, stderr, task>>

(* client.activateWorkflow returns, or throws into the catch that warns *)
Activate(ok) ==
    /\ fn.name = "deploy"
    /\ fn.out.pc = "activateWorkflow"
    /\ fn' = [fn EXCEPT !.out.activated = IF ok THEN "activated" ELSE "warned",
                        !.out.pc = "exited", !.out.exit = 0]
    /\ UNCHANGED <<profile, pc, op, path, attempt, fetches, delays, lastErr, timerArmed,
                   elapsed, sent, lastOutcome, firstSend, result, fellBack, inflight, stderr, task>>

NextDeploy ==
    \/ \E name \in WorkflowNames, firstPage \in WorkflowLists(MaxFirstPage),
          later \in WorkflowLists(MaxLaterWorkflows) : Deploy(name, firstPage, later)
    \/ ListWorkflowsReturns
    \/ UpdateWorkflowReturns
    \/ CreateWorkflowReturns
    \/ DeployFails
    \/ \E ok \in BOOLEAN : Activate(ok)

SpecDeploy == InitFriendly /\ [][NextDeploy]_vars

----------------------------------------------------------------------------
(* Properties *)

Done == pc = "done"
Failed == Done /\ result.kind = "err"
ScopedBy(id) == MkPath(id, "workflows")

(* The 404 of the claims is the HTTP status of a response *)
Is404(err) == err.status = 404
IsClientError(err) == err.status >= 400 /\ err.status <= 499 /\ err.status # 429
IsParseFailure(err) == err.name = "SyntaxError"
IsTimeout(err) == err.status = 0 /\ Includes(err.message, PTimedOut)
IsConnReset(err) == err.status = 0 /\ Includes(err.message, PConnReset)
IsConnRefused(err) ==
    err.status = 0 /\ (Includes(err.message, PConnRefused) \/ err.causeCode = "ECONNREFUSED")
IsFetchFailure(err) == err.status = 0 /\ Includes(err.message, PFetchFailed)

(* C1: with maxRetries = r >= 0 a send performs at most r+1 transport      *)
(* attempts, whatever failures the server and the transport produce        *)
C1_AtMostRPlusOneAttempts ==
    profile.retries >= 0 =>
        /\ fetches <= profile.retries + 1
        /\ firstSend.fetches <= profile.retries + 1

C1_Witness ==
    /\ Failed
    /\ profile.retries = MaxScopedRetries
    /\ fetches = profile.retries + 1
    /\ result.err.status = 500

(* C2: a failure that is an HTTP 4xx other than 429, or a parse failure of *)
(* a successful response, is never followed by a backoff and a further     *)
(* attempt, whatever text the server put in the body                       *)
C2_NonRetryableNeverRetried ==
    pc = "sleeping" => ~(IsClientError(lastErr) \/ IsParseFailure(lastErr))

(* C3: with scopeId set, a primary-resource call whose scoped send fails   *)
(* with a 404 sends exactly once more, to the unscoped path, and returns   *)
(* what that send returned or threw                                        *)
C3_FallbackOn404 ==
    /\ (Failed /\ op.kind \in PrimaryOps /\ path.scope # "") => ~Is404(result.err)
    /\ (Done /\ op.kind \in PrimaryOps /\ Is404(firstSend.err)) =>
          /\ Len(sent) = 2
          /\ sent[1].scope # ""
          /\ sent[2] = Unscoped
          /\ path = Unscoped
          /\ lastOutcome.kind = "err" => result = Thrown(lastOutcome.err)
          /\ lastOutcome.kind = "ok" =>
                /\ result.kind = "ok"
                /\ op.kind \in {"create", "get", "update"} => result.val = lastOutcome.val
                /\ op.kind \in {"delete", "activate", "deactivate"} => ~result.val.defined
                /\ op.kind = "list" =>
                      result.val = IF lastOutcome.val.defined THEN lastOutcome.val
                                   ELSE EmptyList

C3_Witness ==
    /\ Done
    /\ profile.projectId = "p1"
    /\ op.kind = "get"
    /\ Is404(firstSend.err)
    /\ sent = <<ScopedBy("p1"), Unscoped>>
    /\ result.kind = "ok"
    /\ result.val.dataId = "e1"

(* C4: a failure of the scoped send that is not a 404 is never followed by *)
(* a request to the unscoped path                                          *)
C4_NoFallbackOnNon404 ==
    (profile.projectId # "" /\ firstSend # NoSend) => Is404(firstSend.err)

(* C5: a failure that is HTTP 429, HTTP 5xx, a timeout, a connection       *)
(* reset, a refused connection or a generic fetch failure ends a send only *)
(* when no attempts remain                                                 *)
C5_RetryableAlwaysRetried ==
    (Failed /\ profile.retries >= 0 /\ lastOutcome = result
       /\ \/ result.err.status = 429
          \/ result.err.status >= 500 /\ result.err.status <= 599
          \/ IsTimeout(result.err)
          \/ IsConnReset(result.err)
          \/ IsConnRefused(result.err)
          \/ IsFetchFailure(result.err))
    => fetches = profile.retries + 1

ExpectedDelays == <<1000, 2000, 4000, 8000, 10000, 10000, 10000, 10000, 10000>>

DelaysAsExpected(d, n, between) ==
    /\ Len(d) <= Len(ExpectedDelays)
    /\ d = SubSeq(ExpectedDelays, 1, Len(d))
    /\ Len(d) = IF between \/ n = 0 THEN n ELSE n - 1

(* C6: the delay after failed attempt k is min(1000*2^k, 10000) ms, and a  *)
(* delay lies only between two attempts: a send has slept once per attempt *)
(* made while it is between two attempts, and once less while an attempt   *)
(* is in flight and when it has ended                                      *)
C6_BackoffDelays ==
    /\ DelaysAsExpected(delays, fetches, pc \in {"sleeping", "loop"})
    /\ DelaysAsExpected(firstSend.delays, firstSend.fetches, FALSE)

C6_Witness ==
    /\ Done
    /\ fetches = 6
    /\ delays = <<1000, 2000, 4000, 8000, 10000>>

(* C7 as stated: with scopeId set, each of the seven primary-resource      *)
(* operations sends its first request to the path scoped by the profile's  *)
(* scopeId, whatever its per-call arguments                                *)
C7_Original ==
    (profile.projectId # "" /\ op.kind \in PrimaryOps /\ sent # <<>>)
    => sent[1] = ScopedBy(profile.projectId)

(* C7 amended: list, get, update, delete, activate and deactivate send     *)
(* their first request to the path scoped by the profile's scopeId; create *)
(* sends its first request to the path scoped by its projectId argument,   *)
(* and to the unscoped path when it has none, whatever the profile's       *)
(* scopeId                                                                 *)
C7_FirstPath ==
    sent # <<>> =>
        /\ (op.kind \in PrimaryOps \ {"create"} /\ profile.projectId # "")
              => sent[1] = ScopedBy(profile.projectId)
        /\ (op.kind = "create" /\ op.arg # "") => sent[1] = ScopedBy(op.arg)
        /\ (op.kind = "create" /\ op.arg = "") => sent[1] = Unscoped

C7_Witness ==
    /\ Done
    /\ profile.projectId = "p1"
    /\ op.kind = "activate"
    /\ sent[1] = ScopedBy("p1")
    /\ result.kind = "ok"

(* C8 as stated: after any sequence of operations including fallbacks, the *)
(* next primary-resource call of an engine with scopeId set tries the      *)
(* scoped path first                                                       *)
C8_Original ==
    (fellBack /\ profile.projectId # "" /\ op.kind \in PrimaryOps /\ sent # <<>>)
    => sent[1].scope # ""

C8_StateAfterFallback ==
    (fellBack /\ sent # <<>>) =>
        /\ (op.kind \in PrimaryOps \ {"create"} /\ profile.projectId # "")
              => sent[1].scope = profile.projectId
        /\ op.kind = "create" => sent[1].scope = op.arg

(* C8 amended: no operation changes the engine's profile, so after any     *)
(* sequence of operations including fallbacks the next list, get, update,  *)
(* delete, activate or deactivate call again tries the path scoped by the  *)
(* profile's scopeId first, and the next create call the path scoped by    *)
(* its projectId argument (the unscoped path when it has none)             *)
C8_ProfileUnchanged ==
    [][profile' = profile]_vars /\ []C8_StateAfterFallback

C8_Witness ==
    /\ fellBack
    /\ firstSend # NoSend
    /\ Done
    /\ op.kind = "update"
    /\ profile.projectId = "p1"
    /\ sent = <<ScopedBy("p1"), Unscoped>>

(* C9: no call sends more than twice, a second send happens only in a      *)
(* primary-resource operation whose first send was scoped, and an          *)
(* execution operation sends once, to the unscoped executions path, also   *)
(* after a 404 and with scopeId set                                        *)
C9_FallbackOnlyPrimary ==
    /\ Len(sent) <= 2
    /\ Len(sent) = 2 =>
          /\ op.kind \in PrimaryOps
          /\ sent[1].scope # ""
          /\ sent[2] = Unscoped
    /\ op.kind \in SecondaryOps => sent = <<MkPath("", "executions")>>

C9_Witness ==
    /\ Failed
    /\ op.kind = "getExecution"
    /\ profile.projectId = "p1"
    /\ Is404(result.err)
    /\ sent = <<MkPath("", "executions")>>

(* C10: no attempt is still in flight once timeoutMs has elapsed since it  *)
(* started: it has been aborted                                            *)
C10_AttemptBoundedByTimeout ==
    pc \in {"fetching", "reading"} => ~elapsed

(* C11: listWorkflowsAll / listExecutionsAll send the first page without a *)
(* cursor and every later page with the nextCursor of the page before, go   *)
(* on as long as pages carry a nextCursor, return exactly at the first page *)
(* that carries none, and hold the concatenation of the pages' records in   *)
(* the order the server returned them                                       *)
RECURSIVE Concat(_)
Concat(pages) ==
    IF pages = <<>> THEN <<>> ELSE DataOf(Head(pages)) \o Concat(Tail(pages))

C11_ListAllConcatenates ==
    task.kind \in {"listWorkflowsAll", "listExecutionsAll"} =>
        /\ task.all = Concat(task.pages)
        /\ task.cursors[1] = ""
        /\ \A i \in 2..Len(task.cursors) : task.cursors[i] = task.pages[i - 1].nextCursor
        /\ \A i \in 1..(Len(task.pages) - 1) : Truthy(task.pages[i].nextCursor)
        /\ task.status = "returned" =>
              /\ Len(task.pages) >= 1
              /\ ~Truthy(task.pages[Len(task.pages)].nextCursor)
              /\ Len(task.cursors) = Len(task.pages)
        /\ (task.status = "running" /\ pc = "done" /\ result.kind = "ok"
              /\ ~Truthy(result.val.nextCursor)) => ENABLED ListAllReturns
        /\ (task.status = "running" /\ task.pages # <<>>) =>
              /\ Truthy(task.pages[Len(task.pages)].nextCursor)
              /\ Len(task.cursors) = Len(task.pages) + 1

C11_Witness ==
    /\ task.status = "returned"
    /\ Len(task.pages) = 3
    /\ task.all = <<"A", "B", "B", "A", "C">>

(* C12: at most one HTTP request is in flight: every request of pages,     *)
(* retries, fallbacks and batch loops is sent when no other is open, and   *)
(* the batch loops visit the workflows in the order of the list            *)
C12_VisitedInOrder ==
    task.batch # "none" =>
        /\ task.index <= Len(task.all)
        /\ task.visited = SubSeq(task.all, 1, task.index)

C12_OneAtATime ==
    /\ [](inflight <= 1 /\ C12_VisitedInOrder)
    /\ [][inflight' > inflight => inflight = 0]_vars

C12_Witness ==
    /\ task.batch = "activateAll"
    /\ task.status = "finished"
    /\ Len(task.pages) = 2
    /\ task.visited = <<"B", "A", "C">>
    /\ task.ok = 2
    /\ Len(sent) = 2

(* C13: when the request to workflows/{id}/run of runWorkflow fails, with  *)
(* whatever error, runWorkflow sends one request to executions, and when   *)
(* the response to that holds an identifier in data.executionId, data.id   *)
(* or id the operation returns one of them as executionId                  *)
RunIdentifiers(val) ==
    IF val.defined THEN {val.dataExecutionId, val.dataId, val.id} \ {"undef"} ELSE {}

C13_RunFallsBack ==
    op.kind = "runWorkflow" =>
        /\ sent[1] = RunPath
        /\ firstSend # NoSend => sent = <<RunPath, MkPath("", "executions")>>
        /\ (Done /\ Len(sent) = 1) => lastOutcome.kind = "ok"
        /\ (Done /\ firstSend # NoSend /\ lastOutcome.kind = "ok"
               /\ RunIdentifiers(lastOutcome.val) # {}) =>
              /\ result.kind = "ok"
              /\ result.val.executionId \in RunIdentifiers(lastOutcome.val)

C13_Witness ==
    /\ op.kind = "runWorkflow"
    /\ Done
    /\ firstSend.err.status = 500
    /\ lastOutcome = Returned(MkVal(TRUE, Undef, "undef", "e2", "undef", "undef", "undef"))
    /\ result = Returned(ExecutionIdOf("e2"))

(* C14: runWorkflow raises the 'no execution ID' error only after it sent  *)
(* to both endpoints                                                       *)
C14_NoIdOnlyAfterBoth ==
    (op.kind = "runWorkflow" /\ Done /\ result = Thrown(NoExecutionId)) =>
        sent = <<RunPath, MkPath("", "executions")>>

(* C15: retryExecution and runWorkflow extract the same identifier, or     *)
(* both none, from every response body                                     *)
C15_SameExtraction ==
    (op.kind \in {"runWorkflow", "retryExecution"} /\ Done /\ lastOutcome.kind = "ok") =>
        extractId(lastOutcome.val) = retryExecutionId(lastOutcome.val)

(* C16: toFriendlyApiError returns the text of the first rule, in the      *)
(* order 401/unauthorized, 403/forbidden, 404/not found, unresolved        *)
(* hostname, ECONNREFUSED, self-signed certificate, timeout/AbortError,    *)
(* 'n8n API error', fetch failed or cause, whose condition the error meets, *)
(* and the raw message when it meets none                                  *)
MessageText(err) == IF err.kind = "number" THEN Digits(err.number) ELSE err.message

CauseText(err) ==
    IF err.cause.present /\ err.cause.messageType = "string" THEN err.cause.message ELSE <<>>

RuleMatches(i, err) ==
    LET msg == MessageText(err)
        cmsg == CauseText(err)
        code == err.cause.code
    IN  CASE i = 1 -> Includes(msg, P401) \/ Includes(msg, PUnauthorized)
          [] i = 2 -> Includes(msg, P403) \/ Includes(msg, PForbidden)
          [] i = 3 -> Includes(msg, P404) \/ Includes(msg, PNotFound)
          [] i = 4 -> code = "ENOTFOUND" \/ Includes(cmsg, PENotFound)
                      \/ Includes(msg, PGetaddrinfo)
          [] i = 5 -> code = "ECONNREFUSED" \/ Includes(cmsg, PConnRefused)
          [] i = 6 -> code = "SELF_SIGNED_CERT_IN_CHAIN" \/ Includes(cmsg, PSelfSignedCert)
                      \/ Includes(msg, PSelfSigned)
          [] i = 7 -> Includes(msg, PTimedOut) \/ Includes(msg, PAbortError)
          [] i = 8 -> Includes(msg, PApiError)
          [] i = 9 -> Includes(msg, PFetchFailed) \/ cmsg # <<>>
                      \/ (err.cause.present /\ err.cause.messageType = "number")
          [] OTHER -> TRUE

FirstRule(err) == CHOOSE i \in 1..10 : RuleMatches(i, err) /\ \A j \in 1..(i - 1) : ~RuleMatches(j, err)

Guidance(i, err) ==
    CASE i = 1 -> InvalidApiKey
      [] i = 2 -> AccessDenied
      [] i = 3 -> InstanceNotFound
      [] i = 4 -> CannotResolve
      [] i = 5 -> CannotConnect
      [] i = 6 -> SelfSignedRejected
      [] i = 7 -> RequestTimedOut
      [] i = 8 -> MessageText(err) \o ConfigHint
      [] i = 9 -> ConnectionFailed
                  \o (IF CauseText(err) # <<>> THEN CauseText(err) ELSE MessageText(err))
                  \o EnvHint
      [] OTHER -> MessageText(err)

C16_FirstMatchingRule ==
    fn.name = "toFriendlyApiError" =>
        fn.out = FnReturns(Guidance(FirstRule(fn.arg), fn.arg))

(* C17: toFriendlyApiError returns a string for every value, whatever the  *)
(* type of the fields of the cause; it never throws                        *)
C17_Total ==
    fn.name = "toFriendlyApiError" => ~fn.out.threw

(* C18 as stated: every string is returned unchanged *)
C18_Original ==
    (fn.name = "toFriendlyApiError" /\ fn.arg.kind = "string") =>
        fn.out = FnReturns(fn.arg.message)

MessagePatterns ==
    { P401, PUnauthorized, P403, PForbidden, P404, PNotFound, PGetaddrinfo, PSelfSigned,
      PTimedOut, PAbortError, PApiError, PFetchFailed }

(* C18: a string that contains none of the texts the rules look for in the *)
(* message is returned unchanged; a string that contains one is classified *)
(* like an Error with that message and no cause                            *)
C18_StringUnchangedIfNoRule ==
    (fn.name = "toFriendlyApiError" /\ fn.arg.kind = "string") =>
        IF \A pat \in MessagePatterns : ~Includes(fn.arg.message, pat)
        THEN fn.out = FnReturns(fn.arg.message)
        ELSE /\ fn.out = toFriendlyApiError(MkThrown("Error", fn.arg.message, 0, NoCause))
             /\ fn.out # FnReturns(fn.arg.message)

C18_Witness ==
    /\ fn.name = "toFriendlyApiError"
    /\ fn.arg = MkThrown("string", <<"boom">>, 0, NoCause)
    /\ fn.out = FnReturns(<<"boom">>)

(* C19: a response whose status is not 2xx makes doRequest throw an error  *)
(* with that status and the message 'n8n API error <status>: ' followed by *)
(* the message field of the JSON body, else its error.message, else the    *)
(* raw text; it is never returned as a value                               *)
PreferredMessage(r) ==
    IF r.text = "valid" /\ r.message # Undef THEN r.message
    ELSE IF r.text = "valid" /\ r.errorMessage # Undef THEN r.errorMessage
    ELSE r.raw

C19_NonOkRaises ==
    (fn.name = "doRequest" /\ (fn.arg.status < 200 \/ fn.arg.status > 299)) =>
        /\ fn.out.request.kind = "err"
        /\ fn.out.request.err.status = fn.arg.status
        /\ fn.out.request.err.message =
              <<"n8n API error", " ">> \o Digits(fn.arg.status) \o <<": ">>
              \o PreferredMessage(fn.arg)
        /\ fn.out.listWorkflowsPaginated.kind = "err"
        /\ fn.out.listExecutionsPaginated.kind = "err"

C19_Witness ==
    /\ fn.name = "doRequest"
    /\ fn.arg.status = 401
    /\ fn.arg.message = <<"bad key">>
    /\ fn.arg.errorMessage = <<"nested">>
    /\ fn.out.request.err.status = 401
    /\ fn.out.request.err.message = <<"n8n API error", " ", "4", "0", "1", ": ", "bad key">>

(* C20: a 2xx response with an empty body or without a JSON content type   *)
(* makes the request return undefined, and the list operations then return *)
(* an empty data array                                                     *)
C20_EmptyOkIsEmptyList ==
    (/\ fn.name = "doRequest"
     /\ fn.arg.status >= 200 /\ fn.arg.status <= 299
     /\ (fn.arg.text = "empty" \/ ~fn.arg.jsonType)) =>
        /\ fn.out.request = Returned(UndefinedVal)
        /\ fn.out.listWorkflowsPaginated.kind = "ok"
        /\ fn.out.listWorkflowsPaginated.val.defined
        /\ fn.out.listWorkflowsPaginated.val.data = <<>>
        /\ fn.out.listExecutionsPaginated.kind = "ok"
        /\ fn.out.listExecutionsPaginated.val.defined
        /\ fn.out.listExecutionsPaginated.val.data = <<>>
        /\ fn.out.listWorkflows = <<>>
        /\ fn.out.listExecutions = <<>>

C20_Witness ==
    /\ fn.name = "doRequest"
    /\ fn.arg.status = 200
    /\ ~fn.arg.jsonType
    /\ fn.arg.text = "invalid"
    /\ fn.out.request = Returned(UndefinedVal)
    /\ fn.out.listWorkflowsPaginated = Returned(EmptyList)
    /\ fn.out.listWorkflows = <<>>

(* C23: when an attempt fails and the request ends with it, retries used  *)
(* up or not allowed, the operation throws the error of that attempt, with *)
(* its status and message, and no error of an attempt before               *)
AttemptFailsWith(err) ==
    \/ FetchRejects(err)
    \/ TimerFires /\ err = TimeoutError(profile.timeoutMs)
    \/ ReadFails(err)
    \/ \E f \in HttpFailures : ReadErrorBody(f[1], f[2]) /\ err = HttpError(f[1], f[2])

AttemptErrors ==
    TransportErrors \cup {TimeoutError(t) : t \in TimeoutValues}
    \cup {HttpError(f[1], f[2]) : f \in HttpFailures}

ParseFails(res) ==
    res.jsonType /\ res.text = "invalid" /\ ReadOkBody(200, res)

C23_LastErrorPropagates ==
    [][(pc \in {"fetching", "reading"} /\ pc' = "done" /\ result'.kind = "err") =>
          /\ \A err \in AttemptErrors : AttemptFailsWith(err) => result' = Thrown(err)
          /\ \A res \in OkResponses :
                ParseFails(res) => \E err \in SyntaxErrors(res.raw) : result' = Thrown(err)]_vars

C23_Witness ==
    /\ Failed
    /\ profile.retries = 1
    /\ attempt = profile.retries
    /\ fetches = profile.retries + 1
    /\ lastErr.status = 429
    /\ result.err.status = 429
    /\ result.err.message = <<"n8n API error", " ", "4", "2", "9", ": ", "Internal error">>

(* C27: with scopeId set and retries = r >= 0, one primary-resource        *)
(* operation makes at most r+1 attempts on its first path and at most r+1  *)
(* on the unscoped path, 2*(r+1) in all; the unscoped send counts its      *)
(* attempts from zero and its first delay is 1000 ms                       *)
C27_FallbackBudget ==
    (profile.projectId # "" /\ profile.retries >= 0 /\ op.kind \in PrimaryOps) =>
        /\ firstSend.fetches + fetches <= 2 * (profile.retries + 1)
        /\ Len(sent) = 2 =>
              /\ firstSend.fetches >= 1
              /\ firstSend.fetches <= profile.retries + 1
              /\ fetches <= profile.retries + 1
              /\ attempt = IF pc = "sleeping" THEN Len(delays) - 1 ELSE Len(delays)
              /\ delays # <<>> => delays[1] = BackoffBaseMs

C27_Witness ==
    /\ Done
    /\ profile.projectId = "p1"
    /\ profile.retries = MaxScopedRetries
    /\ op.kind = "get"
    /\ Len(sent) = 2
    /\ firstSend.fetches = profile.retries + 1
    /\ fetches = profile.retries + 1
    /\ firstSend.delays = <<1000, 2000>>
    /\ delays = <<1000, 2000>>

(* C30: whatever the retries value, a send makes at least one attempt and  *)
(* an operation that fails throws the error of an attempt, not undefined   *)
C30_AtLeastOneAttempt ==
    Done =>
        /\ fetches >= 1
        /\ result.kind = "err" => result.err # UndefinedErr

(* C28: during one listWorkflowsAll run with scopeId set, a nextCursor is  *)
(* sent only to the path that returned it                                  *)
C28_CursorStaysOnPath ==
    (/\ task.kind = "listWorkflowsAll"
     /\ task.status = "running"
     /\ profile.projectId # ""
     /\ task.pages # <<>>) =>
        \A i \in 1..Len(sent) : sent[i] = task.cursorFrom

(* C29: for every timeoutMs the error of an aborted attempt is retryable   *)
(* and toFriendlyApiError answers it with the timeout guidance, never with *)
(* the guidance of the 401, 403 or 404 rule                                *)
C29_TimeoutIsTimeout ==
    \A t \in TimeoutValues :
        (/\ fn.name = "toFriendlyApiError"
         /\ fn.arg = MkThrown("Error", TimeoutError(t).message, 0, NoCause)) =>
            /\ isRetryable(TimeoutError(t), 0)
            /\ fn.out = FnReturns(RequestTimedOut)

(* C24 as stated: the engine never writes to the standard error stream,   *)
(* debug set or not                                                        *)
C24_Original ==
    ~stderr

(* C24: the engine writes to the standard error stream only when debug is  *)
(* set, and with debug set it has written once an attempt has started      *)
C24_WritesOnlyUnderDebug ==
    /\ stderr => profile.debug
    /\ (profile.debug /\ fetches >= 1) => stderr

C24_Witness ==
    /\ Done
    /\ profile.debug
    /\ stderr
    /\ result.kind = "ok"

(* C25: the address an engine holds never ends with '/', and its request   *)
(* URLs have exactly one '/' between the address and 'api'                  *)
C25_NoTrailingSlash ==
    fn.name = "getUrl" =>
        /\ fn.out.baseUrl = <<>> \/ fn.out.baseUrl[Len(fn.out.baseUrl)] # "/"
        /\ ~Includes(fn.out.url, <<"/", "/", "api">>)

Loading == fn.name = "loadConfig"

(* Both the server-address and the credential variable are non-empty after trimming *)
EnvComplete(env) ==
    /\ NonEmpty(OptTrim(env.N8N_BASE_URL))
    /\ NonEmpty(OptTrim(env.N8N_API_KEY))

(* What the claims call a valid candidate *)
Valid(file) ==
    /\ file.kind \notin {"ENOENT", "unparsable"}
    /\ NonEmpty(file.config.baseUrl)
    /\ NonEmpty(file.config.apiKey)

(* The candidates in the order of the claim: directory by directory, and   *)
(* inside a directory name by name                                         *)
CandidateOrder(env) ==
    LET names == ConfigNames(env)
        n == Len(names)
    IN  [k \in 1..(Len(CandidateDirs) * n) |->
            ConfigPath(CandidateDirs[((k - 1) \div n) + 1], names[((k - 1) % n) + 1])]

(* C21: with both variables set the configuration is the trimmed variables *)
(* and no file is read; otherwise a returned configuration is the content  *)
(* of the file read last, and no variable contributes a field              *)
C21_FirstSourceWins ==
    Loading =>
        /\ EnvComplete(fn.arg) =>
              /\ fn.out.pc = "returned"
              /\ fn.out.reads = <<>>
              /\ fn.out.config.baseUrl = OptTrim(fn.arg.N8N_BASE_URL)
              /\ fn.out.config.apiKey = OptTrim(fn.arg.N8N_API_KEY)
              /\ fn.out.config.projectId =
                    (IF fn.arg.N8N_PROJECT_ID \in {Undef, <<" ">>}
                     THEN Undef ELSE OptTrim(fn.arg.N8N_PROJECT_ID))
              /\ fn.out.config.rejectUnauthorized =
                    (IF fn.arg.N8N_REJECT_UNAUTHORIZED = <<"false">> THEN "false" ELSE "true")
        /\ (~EnvComplete(fn.arg) /\ fn.out.pc = "returned") =>
              /\ fn.out.reads # <<>>
              /\ fn.out.file.kind = "object"
              /\ fn.out.config = fn.out.file.config

C21_Witness ==
    /\ Loading
    /\ fn.out.pc = "returned"
    /\ fn.arg.N8N_BASE_URL = <<" ">>
    /\ fn.arg.N8N_API_KEY = <<"env-key">>
    /\ fn.arg.N8N_PROJECT_ID = <<"proj-123">>
    /\ fn.arg.N8N_REJECT_UNAUTHORIZED = <<"false">>
    /\ fn.out.config = MkConfig(<<"https://file.example.com">>, <<"file-key">>, Undef, "undef")

(* C22: the candidates are read in the order of the claim; the loops go on *)
(* exactly past candidates that are not valid, the first valid one is      *)
(* returned as it is, and the call fails only after the last candidate     *)
C22_FirstValidCandidate ==
    (Loading /\ ~EnvComplete(fn.arg)) =>
        LET order == CandidateOrder(fn.arg)
            reads == fn.out.reads
        IN  /\ Len(reads) <= Len(order)
            /\ \A k \in 1..Len(reads) : reads[k] = order[k]
            /\ (fn.out.pc = "files" /\ reads # <<>>) => ~Valid(fn.out.file)
            /\ fn.out.pc = "returned" =>
                  /\ reads # <<>>
                  /\ Valid(fn.out.file)
                  /\ fn.out.config = fn.out.file.config
            /\ fn.out.pc = "thrown" =>
                  /\ reads = order
                  /\ ~Valid(fn.out.file)

C22_Witness ==
    /\ Loading
    /\ fn.out.pc = "returned"
    /\ fn.arg.N8N_CONFIG_FILE = Undef
    /\ fn.out.reads = << [dir |-> "cwd", name |-> <<"config/n8n-config.local.json">>],
                         [dir |-> "cwd", name |-> <<"config/n8n-config.json">>],
                         [dir |-> "cwd/..", name |-> <<"config/n8n-config.local.json">>],
                         [dir |-> "cwd/..", name |-> <<"config/n8n-config.json">>] >>
    /\ fn.out.config.apiKey = <<"file-key">>

(* C26: a deploy that ran to its end updated the workflow of that name and *)
(* created nothing when the server holds one on any page, created exactly  *)
(* one when it holds none, and succeeded whether the activation did or not *)
C26_CreateOrUpdateByName ==
    (fn.name = "deploy" /\ fn.out.activated # "none") =>
        LET all == fn.arg.firstPage \o fn.arg.later
            exists == \E i \in 1..Len(all) : all[i] = fn.arg.name
        IN  /\ exists =>
                  /\ fn.out.created = 0
                  /\ fn.out.updated \in 1..Len(all)
                  /\ all[fn.out.updated] = fn.arg.name
            /\ ~exists => fn.out.created = 1 /\ fn.out.updated = 0
            /\ fn.out.exit = 0

====
